---- MODULE Spec2Model ----
(***************************************************************************)
(* Model of the news-summarization pipeline: NewsExtractor (robots.txt,    *)
(* recursive sitemap parsing, article fetching) and Workload (per-item     *)
(* summarization/sentiment worker, pool dispatch, save).                   *)
(*                                                                         *)
(* Python strings are sequences of tokens.  A token is a TLA+ string that  *)
(* stands for a run of characters containing none of the characters the    *)
(* code looks for (":", "#", "/", newline, blank); those characters are    *)
(* tokens of their own.                                                    *)
(***************************************************************************)
EXTENDS Integers, Sequences, FiniteSets, TLC

VARIABLES
    robots,          \* environment: outcome of GET base_url/robots.txt
    pc,              \* position of the control flow
    raised,          \* the exception that left the call or ended the run, or NULL
    raised_in,       \* the call the exception came out of, or NULL
    web,             \* environment: outcome of GET for every sitemap URL
    sitemaps,        \* NewsExtractor.main: sitemaps
    links,           \* NewsExtractor.main: links (the last parse_sitemap result)
    si,              \* NewsExtractor.main: position of `for sitemap in sitemaps`
    li,              \* NewsExtractor.main: position of `for link in links`
    fetched_links,   \* NewsExtractor.main: fetched_links
    news_items,      \* NewsExtractor.main: news_items
    slept,           \* seconds spent in sleep(delay) since the last extract_news call
    summarizer_model_name,  \* Workload.summarizer_model_name
    sentiment_model_name,   \* Workload.sentiment_model_name
    items,           \* fetch_news_and_summarize: list(zip(links, news_items))
    status,          \* pool.map: per task "queued", "running" or "done"
    results,         \* pool.map: per task the record its worker returned, or NULL
    pool_error,      \* pool.map: the first exception a task raised, or NULL
    summarized_data, \* main: summarized_data
    s3,              \* the batches written by wr.s3.to_parquet
    arg_news,        \* a worker call on its own: the article text it is given
    model_calls,     \* environment: what the summarizer does on its successive calls
    ret_split,       \* what split_input_text returned
    ret_summary,     \* what _summarize_news returned, or None
    stack,           \* parse_sitemap followed call by call: its frames, innermost last
    fetches          \* parse_sitemap followed call by call: the URLs requested so far

crawl == <<sitemaps, links, si, li, fetched_links, news_items, slept>>
names == <<summarizer_model_name, sentiment_model_name>>
pool == <<items, status, results, pool_error>>
exc == <<raised, raised_in>>
chunker == <<arg_news, model_calls, ret_split, ret_summary>>
expansion == <<stack, fetches>>
vars == <<robots, web, pc, exc, crawl, names, chunker, expansion, pool, summarized_data, s3>>

\* no exception
NULL == "no exception"

\* Python's None and the values that may be None: None is the empty set, a
\* value v that is not None is {v}
None == {}
Some(v) == {v}
Val(o) == CHOOSE v \in o : TRUE

\* the part of the state a call on its own does not touch
Idle ==
    /\ links = <<>>
    /\ si = 1
    /\ li = 1
    /\ fetched_links = <<>>
    /\ news_items = <<>>
    /\ slept = 0
    /\ summarizer_model_name = None
    /\ sentiment_model_name = None
    /\ items = <<>>
    /\ status = <<>>
    /\ results = <<>>
    /\ pool_error = NULL
    /\ summarized_data = <<>>
    /\ s3 = <<>>
    /\ stack = <<>>
    /\ fetches = <<>>

\* the variables of a worker call on its own, while no such call is made
IdleWorker ==
    /\ arg_news = <<>>
    /\ model_calls = <<>>
    /\ ret_split = <<>>
    /\ ret_summary = None

\* ------------------------------------------------------------------ bounds
MaxLines == 2        \* lines of a robots.txt body
MaxEntries == 2      \* <url>/<sitemap> entries of a top-level sitemap document
MaxDepth == 3        \* nesting of parse_sitemap calls before RecursionError
MaxArticles == 2     \* article URLs one sitemap of a whole run lists
MaxText == 4         \* tokens of an article text given to a worker call on its own

\* ------------------------------------------------------- program constants
NUM_POOL_PROCESSES == 4
DELAY == 5               \* seconds, passed to NewsExtractor.main
model_max_length == 2    \* model.tokenizer.model_max_length, in tokens

\* ----------------------------------------------------------------- strings
Range(s) == {s[i] : i \in 1..Len(s)}

SeqsUpTo(S, n) == UNION {[1..k -> S] : k \in 0..n}

Whitespace == {" ", "\t"}

\* str.rstrip(): trailing whitespace removed
RECURSIVE RStrip(_)
RStrip(s) ==
    IF s # <<>> /\ s[Len(s)] \in Whitespace
    THEN RStrip(SubSeq(s, 1, Len(s) - 1))
    ELSE s

\* str.lstrip()
RECURSIVE LStrip(_)
LStrip(s) ==
    IF s # <<>> /\ s[1] \in Whitespace THEN LStrip(Tail(s)) ELSE s

\* str.strip()
Strip(s) == LStrip(RStrip(s))

\* str.rstrip("/")
RECURSIVE RStripSlash(_)
RStripSlash(s) ==
    IF s # <<>> /\ s[Len(s)] = "/"
    THEN RStripSlash(SubSeq(s, 1, Len(s) - 1))
    ELSE s

\* str.lower() on one token, and on a string
LowerTok(t) ==
    CASE t = "Sitemap" -> "sitemap"
      [] t = "SITEMAP" -> "sitemap"
      [] t = "User-agent" -> "user-agent"
      [] t = "Disallow" -> "disallow"
      [] OTHER -> t

Lower(s) == [i \in 1..Len(s) |-> LowerTok(s[i])]

\* str.splitlines(): the lines between newlines, no empty last line
RECURSIVE SplitLines(_)
SplitLines(s) ==
    IF s = <<>> THEN <<>>
    ELSE IF \E i \in 1..Len(s) : s[i] = "\n"
         THEN LET i == CHOOSE j \in 1..Len(s) :
                           s[j] = "\n" /\ \A k \in 1..(j - 1) : s[k] # "\n"
              IN  <<SubSeq(s, 1, i - 1)>> \o SplitLines(SubSeq(s, i + 1, Len(s)))
         ELSE <<s>>

\* str.split(":", maxsplit=1): one part without ":", or the parts around the first ":"
SplitColon(s) ==
    IF \E i \in 1..Len(s) : s[i] = ":"
    THEN LET i == CHOOSE j \in 1..Len(s) :
                      s[j] = ":" /\ \A k \in 1..(j - 1) : s[k] # ":"
         IN  <<SubSeq(s, 1, i - 1), SubSeq(s, i + 1, Len(s))>>
    ELSE <<s>>

\* "\n".join(parts)
RECURSIVE JoinLines(_)
JoinLines(parts) ==
    IF parts = <<>> THEN <<>>
    ELSE IF Len(parts) = 1 THEN parts[1]
    ELSE parts[1] \o <<"\n">> \o JoinLines(Tail(parts))

\* -------------------------------------------------------------------- URLs
BaseUrlArg == <<"https", ":", "//", "example.com", "/">>

\* NewsExtractor.__init__: self.base_url
base_url ==
    IF BaseUrlArg # <<>> /\ BaseUrlArg[Len(BaseUrlArg)] = "/"
    THEN RStripSlash(BaseUrlArg)
    ELSE BaseUrlArg

SitemapA == base_url \o <<"/", "news-a", ".xml">>
SitemapB == base_url \o <<"/", "news-b", ".xml">>
FallbackSitemap == base_url \o <<"/", "sitemap", ".xml">>

\* NewsExtractor.__init__: date, and year/month/day as formatted strings
DateArg == <<"2023", "-", "08", "-", "13">>

\* value of a digit token
Num(t) ==
    CASE t = "2023" -> 2023
      [] t = "2022" -> 2022
      [] t = "08" -> 8
      [] t = "12" -> 12
      [] t = "13" -> 13
      [] t = "14" -> 14
      [] OTHER -> -1

date_formatted == [year |-> Num(DateArg[1]), month |-> Num(DateArg[3]), day |-> Num(DateArg[5])]
year == DateArg[1]
month == DateArg[3]
day == DateArg[5]

\* article URLs of the target date, /2023/08/13/article1, /2023-08-13-article2, ...
Article(i) ==
    LET sep == IF i % 2 = 1 THEN "/" ELSE "-"
    IN  base_url \o <<"/", "2023", sep, "08", sep, "13", sep, "article", ToString(i)>>
Article1 == Article(1)
Article2 == Article(2)
OldArticle == base_url \o <<"/", "2023", "/", "08", "/", "12", "/", "article4">>
\* the other URLs of the four-entry document of the tests
MockArticle2 == base_url \o <<"/", "2023", "/", "08", "/", "12", "/", "article2">>
MockArticle3 == base_url \o <<"/", "2023", "/", "08", "/", "13", "/", "article3">>
\* a URL that holds the date with nothing between its components
CompactArticle == base_url \o <<"/", "2023", "08", "13", "-", "article5">>
Nested1 == base_url \o <<"/", "sitemap", "-", "2023", "-", "08", "-", "13", ".xml">>
Nested2 == base_url \o <<"/", "2023", "/", "08", "/", "13", "/", "index", ".xml">>

\* tokens that are one character long
OneChar == {"/", "-", ":", "#", " ", "\t", "*"}

\* re.search(r".xml.*", link): some character followed by "xml"
SearchXml(link) ==
    \E i \in 1..Len(link) : link[i] = ".xml" \/ (link[i] = "xml" /\ i > 1)

\* no link is taken for a sitemap
NotASitemap(link) == FALSE

\* link.endswith(".xml")
EndsWithXml(link) == link # <<>> /\ link[Len(link)] = ".xml"

\* year, month and day with one character or nothing between them
SearchDateOptionalGap(link) ==
    \E i \in 1..Len(link), g \in {0, 1}, h \in {0, 1} :
        /\ i + g + h + 2 <= Len(link)
        /\ link[i] = year
        /\ g = 1 => link[i + 1] \in OneChar
        /\ link[i + g + 1] = month
        /\ h = 1 => link[i + g + 2] \in OneChar
        /\ link[i + g + h + 2] = day

\* re.search(date_pattern, link), date_pattern = year.{1}?month.{1}?day:
\* year, one character, month, one character, day
SearchDate(link) ==
    \E i \in 1..(Len(link) - 4) :
        /\ link[i] = year
        /\ link[i + 1] \in OneChar
        /\ link[i + 2] = month
        /\ link[i + 3] \in OneChar
        /\ link[i + 4] = day

\* ------------------------------------------------------------ robots.txt
RobotsLines ==
    { <<>>,
      <<" ">>,
      <<"#", " ", "Sitemap", ":", " ">> \o SitemapB,
      <<"Sitemap", ":", " ">> \o SitemapA,
      <<"sitemap", ":">> \o SitemapB,
      <<" ", "SITEMAP", " ", ":", " ">> \o SitemapA \o <<" ">>,
      <<"User-agent", ":", " ", "*">>,
      <<"Sitemap", ":">>,
      <<"Disallow">>,
      <<" ", "#", "note">> }

RobotsBodies ==
    { JoinLines(ls) \o tail :
        ls \in SeqsUpTo(RobotsLines, MaxLines), tail \in {<<>>, <<"\n">>} }

RobotsOutcomes ==
    { [kind |-> "RequestException"] } \cup
    { [kind |-> "response", status_code |-> c, text |-> b] :
        c \in {200, 404}, b \in RobotsBodies }

\* NewsExtractor._get_robots: the response, or the exception that leaves it
\* (after a RequestException is logged, `response` is read unbound)
GetRobots(outcome) ==
    IF outcome.kind = "RequestException"
    THEN [raised |-> "UnboundLocalError", value |-> NULL]
    ELSE [raised |-> NULL, value |-> outcome]

\* get_sitemaps, the loop over lines: data, or IndexError at split[1]
RECURSIVE Directives(_)
Directives(lines) ==
    IF lines = <<>> THEN [raised |-> NULL, value |-> <<>>]
    ELSE LET line == lines[1]
             rest == Directives(Tail(lines))
         IN  IF RStrip(line) # <<>> /\ ~(line # <<>> /\ line[1] = "#")
             THEN LET split == SplitColon(line)
                  IN  IF Len(split) < 2
                      THEN [raised |-> "IndexError", value |-> NULL]
                      ELSE IF rest.raised # NULL THEN rest
                      ELSE [raised |-> NULL,
                            value |-> <<<<Strip(split[1]), Strip(split[2])>>>>
                                        \o rest.value]
             ELSE rest

\* the list comprehension: directive[1] where directive[0].lower() == "sitemap"
RECURSIVE SitemapValues(_)
SitemapValues(data) ==
    IF data = <<>> THEN <<>>
    ELSE (IF Lower(data[1][1]) = <<"sitemap">> THEN <<data[1][2]>> ELSE <<>>)
         \o SitemapValues(Tail(data))

\* NewsExtractor.get_sitemaps
get_sitemaps(outcome) ==
    LET response == GetRobots(outcome)
    IN  IF response.raised # NULL THEN response
        ELSE LET data == Directives(SplitLines(response.value.text))
             IN  IF data.raised # NULL THEN data
                 ELSE LET found == SitemapValues(data.value)
                      IN  [raised |-> NULL,
                           value |-> IF found = <<>>
                                     THEN <<base_url \o <<"/", "sitemap", ".xml">>>>
                                     ELSE found]

\* ---------------------------------------------------------------- sitemaps
\* A sitemap document is the sequence of its <loc> and <lastmod> tags in
\* document order; a lastmod text is a string of tokens.
Loc(u) == [tag |-> "loc", text |-> u]
Lastmod(t) == [tag |-> "lastmod", text |-> t]

StampNew == <<"2023", "-", "08", "-", "13", "T", "12:00:00", "+00:00">>
StampOld == <<"2023", "-", "08", "-", "12", "T", "10:00:00", "+00:00">>
StampBad == <<"2023", "-", "08", "-", "13">>

\* datetime.strptime(text, "%Y-%m-%dT%H:%M:%S%z"): the date, or ValueError
Strptime(t) ==
    IF /\ Len(t) = 8
       /\ t[2] = "-" /\ t[4] = "-" /\ t[6] = "T"
       /\ Num(t[1]) > 0 /\ Num(t[3]) > 0 /\ Num(t[5]) > 0
    THEN [raised |-> NULL,
          value |-> [year |-> Num(t[1]), month |-> Num(t[3]), day |-> Num(t[5])]]
    ELSE [raised |-> "ValueError", value |-> NULL]

\* lastmod_date > date_formatted_tz taken as a comparison of calendar dates
StrictlyAfter(d, target) ==
    \/ d.year > target.year
    \/ d.year = target.year /\ d.month > target.month
    \/ d.year = target.year /\ d.month = target.month /\ d.day > target.day

\* lastmod_date >= date_formatted_tz: the target date at 00:00:00 in the
\* offset of lastmod, so the comparison is the one of the calendar dates
NotBefore(d, target) ==
    \/ d.year > target.year
    \/ d.year = target.year /\ d.month > target.month
    \/ d.year = target.year /\ d.month = target.month /\ d.day >= target.day

\* lastmod_tag.find_previous("loc"): index of the nearest loc before i, or 0
PreviousLoc(doc, i) ==
    IF \E j \in 1..(i - 1) : doc[j].tag = "loc"
    THEN CHOOSE j \in 1..(i - 1) :
             doc[j].tag = "loc" /\ \A k \in (j + 1)..(i - 1) : doc[k].tag # "loc"
    ELSE 0

\* requests.get(sitemap): a URL the environment does not serve raises too
Fetch(w, sitemap) ==
    IF sitemap \in DOMAIN w THEN w[sitemap] ELSE [kind |-> "RequestException"]

Orderings(S) ==
    {f \in [1..Cardinality(S) -> S] : \A i, j \in 1..Cardinality(S) : f[i] = f[j] => i = j}

\* the list as collected, duplicates kept
KeepDuplicates(ls) == {ls}

\* list(set(links)): every element once, in an order the code does not fix
UniqueLinks(ls) == Orderings(Range(ls))

Ok(v) == [raised |-> NULL, value |-> v]
Raise(e) == [raised |-> e, value |-> NULL]

\* parse_sitemap and its two strategies return a list or raise; each operator
\* is the set of its possible outcomes (the order of list(set(..)) is open).
RECURSIVE parse_sitemap(_, _, _)
RECURSIVE WithLastmodFrom(_, _, _, _, _)
RECURSIVE WithoutLastmodFrom(_, _, _, _, _)

\* _parse_sitemap_with_lastmod: the loop from tag i on, links collected so far
WithLastmodFrom(w, doc, i, ls, depth) ==
    IF i > Len(doc) THEN {Ok(ls)}
    ELSE IF doc[i].tag # "lastmod" THEN WithLastmodFrom(w, doc, i + 1, ls, depth)
    ELSE LET lastmod_date == Strptime(doc[i].text)
             p == PreviousLoc(doc, i)
         IN  IF lastmod_date.raised # NULL THEN {Raise(lastmod_date.raised)}
             ELSE IF NotBefore(lastmod_date.value, date_formatted) /\ p # 0
             THEN LET link == doc[p].text
                  IN  IF SearchXml(link)
                      THEN UNION { IF r.raised # NULL THEN {r}
                                   ELSE WithLastmodFrom(w, doc, i + 1, ls \o r.value, depth) :
                                   r \in parse_sitemap(w, link, depth + 1) }
                      ELSE IF SearchDate(link)
                      THEN WithLastmodFrom(w, doc, i + 1, Append(ls, link), depth)
                      ELSE WithLastmodFrom(w, doc, i + 1, ls, depth)
             ELSE WithLastmodFrom(w, doc, i + 1, ls, depth)

\* _parse_sitemap_without_lastmod: the loop from tag i on
WithoutLastmodFrom(w, doc, i, ls, depth) ==
    IF i > Len(doc) THEN {Ok(ls)}
    ELSE IF doc[i].tag # "loc" THEN WithoutLastmodFrom(w, doc, i + 1, ls, depth)
    ELSE LET link == doc[i].text
         IN  IF SearchDate(link)
             THEN IF EndsWithXml(link)
                  THEN UNION { IF r.raised # NULL THEN {r}
                               ELSE WithoutLastmodFrom(w, doc, i + 1, ls \o r.value, depth) :
                               r \in parse_sitemap(w, link, depth + 1) }
                  ELSE WithoutLastmodFrom(w, doc, i + 1, Append(ls, link), depth)
             ELSE WithoutLastmodFrom(w, doc, i + 1, ls, depth)

_parse_sitemap_with_lastmod(w, doc, ls, depth) == WithLastmodFrom(w, doc, 1, ls, depth)

_parse_sitemap_without_lastmod(w, doc, ls, depth) == WithoutLastmodFrom(w, doc, 1, ls, depth)

\* NewsExtractor.parse_sitemap
parse_sitemap(w, sitemap, depth) ==
    IF depth > MaxDepth THEN {Raise("RecursionError")}
    ELSE LET response == Fetch(w, sitemap)
         IN  IF response.kind = "RequestException" THEN {Raise("RequestException")}
             ELSE LET soup == response.content
                      found == IF \E i \in 1..Len(soup) : soup[i].tag = "lastmod"
                               THEN _parse_sitemap_with_lastmod(w, soup, <<>>, depth)
                               ELSE _parse_sitemap_without_lastmod(w, soup, <<>>, depth)
                  IN  UNION { IF r.raised # NULL THEN {r}
                              ELSE {Ok(unique_links) : unique_links \in UniqueLinks(r.value)} :
                              r \in found }

\* sitemap documents of the environment
Entries(urls, stamps) ==
    {<<Loc(u)>> : u \in urls} \cup
    {<<Loc(u), Lastmod(t)>> : u \in urls, t \in stamps}

RECURSIVE Flatten(_)
Flatten(ss) == IF ss = <<>> THEN <<>> ELSE ss[1] \o Flatten(Tail(ss))

Docs(urls, stamps, n) == {Flatten(es) : es \in SeqsUpTo(Entries(urls, stamps), n)}

Response(doc) == [kind |-> "response", content |-> doc]

Outcomes(docs) == {[kind |-> "RequestException"]} \cup {Response(d) : d \in docs}

\* the four-entry document: lastmod on the 13th, lastmod on the 12th, two
\* entries without lastmod
MOCK_SITEMAP_CONTENT ==
    << Loc(Article1), Lastmod(StampNew),
       Loc(MockArticle2), Lastmod(StampOld),
       Loc(MockArticle3),
       Loc(OldArticle) >>

NestedOutcomes ==
    Outcomes({ <<>>,
               <<Loc(Article1)>>,
               <<Loc(Article2), Loc(Article1)>>,
               <<Loc(Article1), Lastmod(StampNew)>>,
               <<Loc(Article2), Lastmod(StampBad)>> })

TopOutcomes ==
    Outcomes(Docs({Article1, OldArticle, CompactArticle, Nested1, Nested2, SitemapA},
                  {StampNew, StampOld, StampBad}, MaxEntries)
             \cup {MOCK_SITEMAP_CONTENT})

\* ------------------------------------------ parse_sitemap called on its own
InitParse ==
    /\ \E a \in TopOutcomes, n1 \in NestedOutcomes, n2 \in NestedOutcomes :
           web = (SitemapA :> a) @@ (Nested1 :> n1) @@ (Nested2 :> n2)
    /\ robots = [kind |-> "RequestException"]
    /\ pc = "call_parse_sitemap"
    /\ raised = NULL
    /\ raised_in = NULL
    /\ sitemaps = <<SitemapA>>
    /\ Idle
    /\ IdleWorker

CallParseSitemap ==
    /\ pc = "call_parse_sitemap"
    /\ \E r \in parse_sitemap(web, sitemaps[1], 1) :
           /\ raised' = r.raised
           /\ raised_in' = IF r.raised = NULL THEN NULL ELSE "parse_sitemap"
           /\ links' = IF r.raised = NULL THEN r.value ELSE links
           /\ pc' = IF r.raised = NULL THEN "returned" ELSE "raised"
    /\ UNCHANGED <<robots, web, sitemaps, si, li, fetched_links, news_items, slept,
                   names, expansion, chunker,
                   pool,
                   summarized_data, s3>>

\* one strategy called on the fetched document, with links = []
CallStrategy(name, outcomes) ==
    /\ pc = "call_parse_sitemap"
    /\ web[sitemaps[1]].kind = "response"
    /\ \E r \in outcomes :
           /\ raised' = r.raised
           /\ raised_in' = IF r.raised = NULL THEN NULL ELSE name
           /\ links' = IF r.raised = NULL THEN r.value ELSE links
           /\ pc' = IF r.raised = NULL THEN name ELSE "raised"
    /\ UNCHANGED <<robots, web, sitemaps, si, li, fetched_links, news_items, slept,
                   names, expansion, chunker,
                   pool,
                   summarized_data, s3>>

CallWithLastmod ==
    CallStrategy("_parse_sitemap_with_lastmod",
                 _parse_sitemap_with_lastmod(web, web[sitemaps[1]].content, <<>>, 1))

CallWithoutLastmod ==
    CallStrategy("_parse_sitemap_without_lastmod",
                 _parse_sitemap_without_lastmod(web, web[sitemaps[1]].content, <<>>, 1))

NextParse == CallParseSitemap \/ CallWithLastmod \/ CallWithoutLastmod

SpecParse == InitParse /\ [][NextParse]_vars

\* ------------------------------------ parse_sitemap followed call by call
\* The recursion of parse_sitemap as a stack of frames: one frame per call
\* that has fetched its document, with the position of its loop over the tags
\* and the links it has collected.
Frame(sitemap, soup) == [sitemap |-> sitemap, soup |-> soup, i |-> 1, links |-> <<>>]

Top == stack[Len(stack)]

\* soup.find("lastmod")
HasLastmod(soup) == \E i \in 1..Len(soup) : soup[i].tag = "lastmod"

\* what the loop of the chosen strategy does at tag i of the document
TagAction(soup, i) ==
    IF HasLastmod(soup)
    THEN IF soup[i].tag # "lastmod" THEN [do |-> "skip", link |-> <<>>]
         ELSE LET lastmod_date == Strptime(soup[i].text)
                  p == PreviousLoc(soup, i)
              IN  IF lastmod_date.raised # NULL THEN [do |-> "raise", link |-> <<>>]
                  ELSE IF NotBefore(lastmod_date.value, date_formatted) /\ p # 0
                  THEN IF SearchXml(soup[p].text)
                       THEN [do |-> "recurse", link |-> soup[p].text]
                       ELSE IF SearchDate(soup[p].text)
                       THEN [do |-> "append", link |-> soup[p].text]
                       ELSE [do |-> "skip", link |-> <<>>]
                  ELSE [do |-> "skip", link |-> <<>>]
    ELSE IF soup[i].tag # "loc" THEN [do |-> "skip", link |-> <<>>]
         ELSE IF SearchDate(soup[i].text)
         THEN IF EndsWithXml(soup[i].text)
              THEN [do |-> "recurse", link |-> soup[i].text]
              ELSE [do |-> "append", link |-> soup[i].text]
         ELSE [do |-> "skip", link |-> <<>>]

\* an exception leaves every frame
Unwind(err) ==
    /\ raised' = err
    /\ raised_in' = "parse_sitemap"
    /\ pc' = "raised"
    /\ stack' = <<>>

\* parse_sitemap(link) is called with the frames `below` on the stack, lines
\* 150-153: the interpreter's recursion limit, the request, the new frame
Enter(below, link) ==
    IF Len(below) >= MaxDepth
    THEN Unwind("RecursionError") /\ UNCHANGED fetches
    ELSE /\ fetches' = Append(fetches, link)
         /\ LET response == Fetch(web, link)
            IN  IF response.kind = "RequestException"
                THEN Unwind("RequestException")
                ELSE /\ stack' = Append(below, Frame(link, response.content))
                     /\ pc' = "expanding"
                     /\ UNCHANGED exc

\* sitemap documents that refer to each other
ExpandWebs ==
    { (SitemapA :> Response(a)) @@ (Nested1 :> n1) @@ (Nested2 :> n2) :
        a \in Docs({Article1, Nested1, Nested2}, {StampNew}, MaxEntries),
        n1 \in Outcomes({ <<>>,
                          <<Loc(Article2)>>,
                          <<Loc(Nested2)>>,
                          <<Loc(Nested2), Loc(Nested2)>>,
                          <<Loc(Nested1)>>,
                          <<Loc(SitemapA), Lastmod(StampNew)>>,
                          <<Loc(Article1), Lastmod(StampBad)>> }),
        n2 \in Outcomes({<<>>, <<Loc(Article1)>>, <<Loc(Nested1)>>}) }

InitExpand ==
    /\ web \in ExpandWebs
    /\ robots = [kind |-> "RequestException"]
    /\ pc = "call_expand"
    /\ raised = NULL
    /\ raised_in = NULL
    /\ sitemaps = <<SitemapA>>
    /\ Idle
    /\ IdleWorker

\* what the expansion leaves alone
NotExpanded ==
    <<robots, web, sitemaps, si, li, fetched_links, news_items, slept, names, chunker,
      pool, summarized_data, s3>>

\* parse_sitemap(sitemap) is called
ExpandCall ==
    /\ pc = "call_expand"
    /\ Enter(<<>>, sitemaps[1])
    /\ UNCHANGED <<links, NotExpanded>>

\* the loop of the innermost call handles its next tag
ExpandTag ==
    /\ pc = "expanding"
    /\ Top.i <= Len(Top.soup)
    /\ LET a == TagAction(Top.soup, Top.i)
           advanced == [stack EXCEPT ![Len(stack)].i = Top.i + 1]
       IN  CASE a.do = "raise" -> Unwind("ValueError") /\ UNCHANGED fetches
             [] a.do = "recurse" -> Enter(advanced, a.link)
             [] a.do = "append" ->
                    /\ stack' = [advanced EXCEPT ![Len(stack)].links = Append(Top.links, a.link)]
                    /\ UNCHANGED <<pc, exc, fetches>>
             [] OTHER -> stack' = advanced /\ UNCHANGED <<pc, exc, fetches>>
    /\ UNCHANGED <<links, NotExpanded>>

\* the innermost call returns list(set(links)), lines 162-164; its caller does
\* links += ...
ExpandReturn ==
    /\ pc = "expanding"
    /\ Top.i > Len(Top.soup)
    /\ \E unique_links \in UniqueLinks(Top.links) :
           IF Len(stack) = 1
           THEN /\ links' = unique_links
                /\ pc' = "returned"
                /\ stack' = <<>>
           ELSE /\ stack' = [SubSeq(stack, 1, Len(stack) - 1) EXCEPT
                                ![Len(stack) - 1].links = @ \o unique_links]
                /\ UNCHANGED <<links, pc>>
    /\ UNCHANGED <<exc, fetches, NotExpanded>>

NextExpand == ExpandCall \/ ExpandTag \/ ExpandReturn

\* a call in progress goes on: the interpreter runs it
SpecExpand == InitExpand /\ [][NextExpand]_vars /\ WF_vars(NextExpand)

\* ------------------------------------------- get_sitemaps called on its own
InitRobots ==
    /\ robots \in RobotsOutcomes
    /\ pc = "call_get_sitemaps"
    /\ raised = NULL
    /\ raised_in = NULL
    /\ sitemaps = <<>>
    /\ web = <<>>
    /\ Idle
    /\ IdleWorker

CallGetSitemaps ==
    /\ pc = "call_get_sitemaps"
    /\ LET r == get_sitemaps(robots)
       IN  /\ raised' = r.raised
           /\ raised_in' = IF r.raised = NULL THEN NULL ELSE "get_sitemaps"
           /\ sitemaps' = IF r.raised = NULL THEN r.value ELSE sitemaps
           /\ pc' = IF r.raised = NULL THEN "returned" ELSE "raised"
    /\ UNCHANGED <<robots, web, links, si, li, fetched_links, news_items, slept, names,
                   expansion, chunker,
                   pool,
                   summarized_data, s3>>

NextRobots == CallGetSitemaps

SpecRobots == InitRobots /\ [][NextRobots]_vars

\* ------------------------------------------------------------ extract_news
Text1 == <<"para1">>
Text2 == <<"para1", "\n", "para2", "\n", "para3">>

\* what the page of a link holds when it can be fetched and has content
PageText(link) == IF link = Article1 THEN Text1 ELSE Text2

\* trafilatura.fetch_url(link) and trafilatura.extract(response):
\* no response, a response without content (None), a response with text
PageOutcomes(link) ==
    { [response |-> FALSE, news |-> None],
      [response |-> TRUE, news |-> None],
      [response |-> TRUE, news |-> Some(PageText(link))] }

\* NewsExtractor.extract_news: without a response `news` is returned unbound
extract_news(page) ==
    IF page.response THEN Ok(page.news) ELSE Raise("UnboundLocalError")

\* ---------------------------------------------------------- ModelPipeline
\* what a call of a pipeline does: "ok" (an output), or the exception it raises
ModelOutcomes == {"ok", "OSError", "ValueError", "IndexError", "RuntimeError", "KeyError"}

\* ModelPipeline.run_model: OSError and ValueError become None, the rest leaves
RunModelOn(outcome, output) ==
    IF outcome = "ok" THEN Ok(Some(output))
    ELSE IF outcome \in {"OSError", "ValueError"} THEN Ok(None)
    ELSE Raise(outcome)

\* ModelPipeline.run_model under everything the pipeline may do
run_model(output) == {RunModelOn(outcome, output) : outcome \in ModelOutcomes}

\* ModelPipeline._count_tokens: the tokenizer counts every token but newlines
_count_tokens(input_text) ==
    Cardinality({i \in 1..Len(input_text) : input_text[i] # "\n"})

\* str.split("\n")
RECURSIVE SplitNewline(_)
SplitNewline(s) ==
    IF \E i \in 1..Len(s) : s[i] = "\n"
    THEN LET i == CHOOSE j \in 1..Len(s) :
                      s[j] = "\n" /\ \A k \in 1..(j - 1) : s[k] # "\n"
         IN  <<SubSeq(s, 1, i - 1)>> \o SplitNewline(SubSeq(s, i + 1, Len(s)))
    ELSE <<s>>

\* ModelPipeline._find_middle
_find_middle(splitted_text) == Len(splitted_text) \div 2

\* ModelPipeline.split_input_text
split_input_text(input_text) ==
    IF _count_tokens(input_text) > model_max_length
    THEN LET splitted_text == SplitNewline(input_text)
             middle_index == _find_middle(splitted_text)
             first_part == SubSeq(splitted_text, 1, middle_index)
             second_part == SubSeq(splitted_text, middle_index + 1, Len(splitted_text))
         IN  <<JoinLines(first_part), JoinLines(second_part)>>
    ELSE <<input_text>>

\* the pipelines' outputs: a summary of a text, a label and a score for a summary
SummaryOf(text) == <<"summary-of">> \o (IF text = <<>> THEN <<>> ELSE <<text[1]>>)
SentimentOf(text) ==
    IF Len(text) <= 2 THEN [label |-> "POSITIVE", score |-> 99]
    ELSE [label |-> "NEGATIVE", score |-> 75]

\* ---------------------------------------------------------------- Workload
\* what the summarizer pipeline does on its successive calls for one item;
\* split_input_text returns at most two chunks
SummarizerCalls == [1..2 -> ModelOutcomes]

\* the loop of _summarize_news with every output put in front of the list
RECURSIVE SummariesNewestFirst(_, _, _, _)
SummariesNewestFirst(news_split, i, summaries, calls) ==
    IF i > Len(news_split) THEN Ok(summaries)
    ELSE LET summary_output ==
                 RunModelOn(calls[i], [summary_text |-> SummaryOf(news_split[i])])
         IN  IF summary_output.raised # NULL THEN summary_output
             ELSE IF summary_output.value # None
             THEN SummariesNewestFirst(news_split, i + 1,
                      <<Val(summary_output.value).summary_text>> \o summaries, calls)
             ELSE SummariesNewestFirst(news_split, i + 1, summaries, calls)

\* _summarize_news, the loop over news_split from chunk i on, one summarizer
\* call per chunk; calls[i] is what the pipeline does on chunk i
RECURSIVE SummariesFrom(_, _, _, _)
SummariesFrom(news_split, i, summaries, calls) ==
    IF i > Len(news_split) THEN Ok(summaries)
    ELSE LET summary_output ==
                 RunModelOn(calls[i], [summary_text |-> SummaryOf(news_split[i])])
         IN  IF summary_output.raised # NULL THEN summary_output
             ELSE IF summary_output.value # None
             THEN SummariesFrom(news_split, i + 1,
                      Append(summaries, Val(summary_output.value).summary_text), calls)
             ELSE SummariesFrom(news_split, i + 1, summaries, calls)

\* Workload._summarize_news; the tokenizer raises ValueError on None
_summarize_news(news, calls) ==
    IF news = None THEN Raise("ValueError")
    ELSE LET summaries == SummariesFrom(split_input_text(Val(news)), 1, <<>>, calls)
         IN  IF summaries.raised # NULL THEN summaries
             ELSE IF summaries.value = <<>> THEN Raise("ValueError")
             ELSE Ok(IF Len(summaries.value) > 1
                     THEN JoinLines(summaries.value)
                     ELSE summaries.value[1])

\* urlparse(link).netloc: what follows "//" up to the next "/"
Netloc(link) ==
    IF \E i \in 1..(Len(link) - 1) : link[i] = "//" /\ link[i + 1] # "/"
    THEN LET i == CHOOSE j \in 1..(Len(link) - 1) :
                      link[j] = "//" /\ \A k \in 1..(j - 1) : link[k] # "//"
         IN  IF link[i + 1] # "/" THEN <<link[i + 1]>> ELSE <<>>
    ELSE <<>>

\* _get_summarized_item: the record before the models run
DefaultItem(item) ==
    [source |-> Netloc(item[1]),
     link |-> item[1],
     article_text |-> item[2],
     summary |-> None,
     sentiment_label |-> None,
     sentiment_score |-> None,
     sentiment_model |-> None,
     summarization_model |-> None]

\* _get_summarized_item: the except clauses
Handled(err) == err \in {"IndexError", "ValueError", "RuntimeError"}

\* the record filled stage by stage: the summary is stored before the
\* sentiment analyzer runs and stays when that stage fails
FillStageByStage(item, summarizer_name, sentiment_name, calls) ==
    LET summarized_item == DefaultItem(item)
    IN  UNION {
          IF news_summary.raised # NULL
          THEN {IF Handled(news_summary.raised) THEN Ok(summarized_item) ELSE news_summary}
          ELSE LET with_summary == [summarized_item EXCEPT
                                       !.summary = Some(news_summary.value),
                                       !.summarization_model = summarizer_name]
               IN  { IF sentiment_dict.raised # NULL
                     THEN IF Handled(sentiment_dict.raised)
                          THEN Ok(with_summary) ELSE sentiment_dict
                     ELSE IF sentiment_dict.value = None
                     THEN Raise("TypeError")
                     ELSE Ok([with_summary EXCEPT
                                 !.sentiment_label = Some(Val(sentiment_dict.value).label),
                                 !.sentiment_score = Some(Val(sentiment_dict.value).score),
                                 !.sentiment_model = sentiment_name]) :
                     sentiment_dict \in run_model(SentimentOf(news_summary.value)) } :
          news_summary \in {_summarize_news(item[2], c) : c \in calls} }

\* Workload._get_summarized_item: the records it may return and the exceptions
\* that may leave it, over the summarizer behaviours in calls and everything
\* the sentiment pipeline may do
_get_summarized_item(item, summarizer_name, sentiment_name, calls) ==
    LET summarized_item == DefaultItem(item)
    IN  UNION {
          IF news_summary.raised # NULL
          THEN {IF Handled(news_summary.raised) THEN Ok(summarized_item) ELSE news_summary}
          ELSE { IF sentiment_dict.raised # NULL
                 THEN IF Handled(sentiment_dict.raised)
                      THEN Ok(summarized_item) ELSE sentiment_dict
                 ELSE IF sentiment_dict.value = None
                 THEN Raise("TypeError")
                 ELSE Ok([summarized_item EXCEPT
                             !.summary = Some(news_summary.value),
                             !.sentiment_label = Some(Val(sentiment_dict.value).label),
                             !.sentiment_score = Some(Val(sentiment_dict.value).score),
                             !.sentiment_model = sentiment_name,
                             !.summarization_model = summarizer_name]) :
                 sentiment_dict \in run_model(SentimentOf(news_summary.value)) } :
          news_summary \in {_summarize_news(item[2], c) : c \in calls} }

\* zip(links, news_items)
Zip(a, b) ==
    LET n == IF Len(a) < Len(b) THEN Len(a) ELSE Len(b)
    IN  [i \in 1..n |-> <<a[i], b[i]>>]

\* --------------------------------------- the worker's calls on their own
\* article texts: words and newlines
Texts == SeqsUpTo({"a", "b", "\n"}, MaxText)

InitWorker ==
    /\ arg_news \in Texts
    /\ model_calls \in SummarizerCalls
    /\ ret_split = <<>>
    /\ ret_summary = None
    /\ robots = [kind |-> "RequestException"]
    /\ web = <<>>
    /\ pc = "call_worker"
    /\ raised = NULL
    /\ raised_in = NULL
    /\ sitemaps = <<>>
    /\ Idle

CallSplitInputText ==
    /\ pc = "call_worker"
    /\ ret_split' = split_input_text(arg_news)
    /\ pc' = "split_input_text"
    /\ UNCHANGED <<robots, web, exc, crawl, names, expansion, arg_news, model_calls,
                   ret_summary,
                   pool, summarized_data, s3>>

CallSummarizeNews ==
    /\ pc = "call_worker"
    /\ LET r == _summarize_news(Some(arg_news), model_calls)
       IN  /\ raised' = r.raised
           /\ raised_in' = IF r.raised = NULL THEN NULL ELSE "_summarize_news"
           /\ ret_summary' = IF r.raised = NULL THEN Some(r.value) ELSE ret_summary
           /\ pc' = IF r.raised = NULL THEN "_summarize_news" ELSE "raised"
    /\ UNCHANGED <<robots, web, crawl, names, expansion, arg_news, model_calls, ret_split,
                   pool, summarized_data, s3>>

\* _get_summarized_item on the item (Article1, arg_news), the summarizer
\* behaving as model_calls says
CallGetSummarizedItem ==
    /\ pc = "call_worker"
    /\ items' = <<<<Article1, Some(arg_news)>>>>
    /\ \E r \in _get_summarized_item(items'[1], summarizer_model_name, sentiment_model_name,
                                     {model_calls}) :
           /\ raised' = r.raised
           /\ raised_in' = IF r.raised = NULL THEN NULL ELSE "_get_summarized_item"
           /\ results' = IF r.raised = NULL THEN <<Some(r.value)>> ELSE results
           /\ pc' = IF r.raised = NULL THEN "_get_summarized_item" ELSE "raised"
    /\ UNCHANGED <<robots, web, crawl, names, expansion, chunker, status, pool_error,
                   summarized_data, s3>>

NextWorker == CallSplitInputText \/ CallSummarizeNews \/ CallGetSummarizedItem

SpecWorker == InitWorker /\ [][NextWorker]_vars

\* ------------------------------------------------------------ the whole run
\* a sitemap that lists the articles n, n-1, .., 1
Listing(n) == [i \in 1..n |-> Loc(Article(n + 1 - i))]

RunOutcomes ==
    Outcomes({Listing(n) : n \in 0..MaxArticles} \cup
             { <<Loc(Article1), Lastmod(StampBad)>>,
               <<Loc(Nested1), Lastmod(StampNew), Loc(Nested2)>> })

RunWebs ==
    { (SitemapA :> a) @@ (SitemapB :> b) @@ (FallbackSitemap :> a)
        @@ (Nested1 :> Response(<<Loc(Article2)>>))
        @@ (Nested2 :> [kind |-> "RequestException"]) :
        a \in RunOutcomes, b \in Outcomes({<<>>, <<Loc(Article1)>>}) }

RunRobots ==
    { [kind |-> "RequestException"],
      [kind |-> "response", status_code |-> 404, text |-> <<"Not", " ", "Found">>],
      [kind |-> "response", status_code |-> 200,
       text |-> <<"User-agent", ":", " ", "*", "\n", "\n", "#", " ", "none", "\n">>],
      [kind |-> "response", status_code |-> 200,
       text |-> <<"Sitemap", ":", " ">> \o SitemapA],
      [kind |-> "response", status_code |-> 200,
       text |-> <<"Sitemap", ":", " ">> \o SitemapA \o <<"\n", "sitemap", ":">> \o SitemapB] }

\* --summarizer-model and --sentiment-model: given, or left at their default None
ModelNameArgs ==
    {None, Some("facebook/bart-large-cnn")} \X
    {None, Some("distilbert-base-uncased-finetuned-sst-2-english")}

Init ==
    /\ robots \in RunRobots
    /\ web \in RunWebs
    /\ pc = "main"
    /\ raised = NULL
    /\ raised_in = NULL
    /\ sitemaps = <<>>
    /\ links = <<>>
    /\ si = 1
    /\ li = 1
    /\ fetched_links = <<>>
    /\ news_items = <<>>
    /\ slept = 0
    /\ \E args \in ModelNameArgs :
           /\ summarizer_model_name = args[1]
           /\ sentiment_model_name = args[2]
    /\ items = <<>>
    /\ status = <<>>
    /\ results = <<>>
    /\ pool_error = NULL
    /\ summarized_data = <<>>
    /\ s3 = <<>>
    /\ stack = <<>>
    /\ fetches = <<>>
    /\ IdleWorker

\* an exception leaves the run
Crash(err, call) ==
    /\ raised' = err
    /\ raised_in' = call
    /\ pc' = "raised"

\* NewsExtractor.main, line 189
MainGetSitemaps ==
    /\ pc = "main"
    /\ LET r == get_sitemaps(robots)
       IN  IF r.raised # NULL
           THEN Crash(r.raised, "get_sitemaps") /\ UNCHANGED sitemaps
           ELSE /\ sitemaps' = r.value
                /\ pc' = "for_sitemap"
                /\ UNCHANGED exc
    /\ UNCHANGED <<robots, web, links, si, li, fetched_links, news_items, slept, names,
                   expansion, chunker,
                   pool,
                   summarized_data, s3>>

\* NewsExtractor.main, lines 192-194: the next sitemap is parsed
MainParseSitemap ==
    /\ pc = "for_sitemap"
    /\ si <= Len(sitemaps)
    /\ \E r \in parse_sitemap(web, sitemaps[si], 1) :
           IF r.raised # NULL
           THEN Crash(r.raised, "parse_sitemap") /\ UNCHANGED <<links, si, li>>
           ELSE /\ links' = r.value
                /\ li' = 1
                /\ IF r.value = <<>>
                   THEN si' = si + 1 /\ pc' = "for_sitemap"
                   ELSE si' = si /\ pc' = "for_link"
                /\ UNCHANGED exc
    /\ UNCHANGED <<robots, web, sitemaps, fetched_links, news_items, slept, names,
                   expansion, chunker,
                   pool,
                   summarized_data, s3>>

\* a call that returns at once
NoSleep(t, delay) == t

\* sleep(delay) entered after t seconds of sleep: blocks for delay seconds
sleep(t, delay) == t + delay

\* NewsExtractor.main, lines 195-199: one link is fetched, then sleep(delay)
MainExtractNews ==
    /\ pc = "for_link"
    /\ li <= Len(links)
    /\ \E page \in PageOutcomes(links[li]) :
           LET news == extract_news(page)
           IN  IF news.raised # NULL
               THEN Crash(news.raised, "extract_news")
                    /\ UNCHANGED <<si, li, fetched_links, news_items, slept>>
               ELSE /\ news_items' = Append(news_items, news.value)
                    /\ fetched_links' = Append(fetched_links, links[li])
                    /\ slept' = sleep(0, DELAY)
                    /\ li' = li + 1
                    /\ IF li = Len(links)
                       THEN si' = si + 1 /\ pc' = "for_sitemap"
                       ELSE si' = si /\ pc' = "for_link"
                    /\ UNCHANGED exc
    /\ UNCHANGED <<robots, web, sitemaps, links, names, expansion, chunker, pool,
                   summarized_data, s3>>

\* NewsExtractor.main returns; fetch_news_and_summarize, lines 190-193: the
\* items are handed to the pool
Dispatch ==
    /\ pc = "for_sitemap"
    /\ si > Len(sitemaps)
    /\ items' = Zip(fetched_links, news_items)
    /\ status' = [i \in 1..Len(items') |-> "queued"]
    /\ results' = [i \in 1..Len(items') |-> None]
    /\ pool_error' = NULL
    /\ pc' = "pool"
    /\ UNCHANGED <<robots, web, exc, crawl, names, expansion, chunker, summarized_data, s3>>

Running == {i \in 1..Len(status) : status[i] = "running"}
Queued == {i \in 1..Len(status) : status[i] = "queued"}

\* a free worker process takes the next task of the queue
StartTask ==
    /\ pc = "pool"
    /\ Queued # {}
    /\ Cardinality(Running) < NUM_POOL_PROCESSES
    /\ LET k == CHOOSE i \in Queued : \A j \in Queued : i <= j
       IN  status' = [status EXCEPT ![k] = "running"]
    /\ UNCHANGED <<robots, web, pc, exc, crawl, names, expansion, chunker, items,
                   results, pool_error,
                   summarized_data, s3>>

\* the results in the order they arrive: the first free position is filled
StoreInArrivalOrder(rs, k, record) ==
    LET free == CHOOSE i \in 1..Len(rs) :
                    rs[i] = None /\ \A j \in 1..(i - 1) : rs[j] # None
    IN  [rs EXCEPT ![free] = Some(record)]

\* position k of the result list gets what the worker returned
StoreResult(rs, k, record) == [rs EXCEPT ![k] = Some(record)]

\* a worker process runs _get_summarized_item on its task and reports back
FinishTask(k) ==
    /\ pc = "pool"
    /\ status[k] = "running"
    /\ \E r \in _get_summarized_item(items[k], summarizer_model_name, sentiment_model_name,
                                     SummarizerCalls) :
               IF r.raised # NULL
               THEN /\ pool_error' = IF pool_error = NULL THEN r.raised ELSE pool_error
                    /\ UNCHANGED results
               ELSE /\ results' = StoreResult(results, k, r.value)
                    /\ UNCHANGED pool_error
    /\ status' = [status EXCEPT ![k] = "done"]
    /\ UNCHANGED <<robots, web, pc, exc, crawl, names, expansion, chunker, items,
                   summarized_data, s3>>

\* pool.map returns once every task is done: the list, or the first exception
PoolReturn ==
    /\ pc = "pool"
    /\ \A i \in 1..Len(status) : status[i] = "done"
    /\ IF pool_error # NULL
       THEN Crash(pool_error, "pool.map") /\ UNCHANGED summarized_data
       ELSE /\ summarized_data' = [i \in 1..Len(results) |-> Val(results[i])]
            /\ pc' = "save_to_s3"
            /\ UNCHANGED exc
    /\ UNCHANGED <<robots, web, crawl, names, expansion, chunker, pool, s3>>

\* every batch is written, an empty one too
WriteAlways(store, batch) == Append(store, batch)

\* Workload.save_to_s3, lines 207-208: wr.s3.to_parquet is called when the
\* batch holds at least one record
save_to_s3(store, batch) == IF Len(batch) > 0 THEN Append(store, batch) ELSE store

\* main, line 270: workload.save_to_s3(summarized_data)
SaveToS3 ==
    /\ pc = "save_to_s3"
    /\ s3' = save_to_s3(s3, summarized_data)
    /\ pc' = "done"
    /\ UNCHANGED <<robots, web, exc, crawl, names, expansion, chunker, pool, summarized_data>>

Next ==
    \/ MainGetSitemaps
    \/ MainParseSitemap
    \/ MainExtractNews
    \/ Dispatch
    \/ StartTask
    \/ \E k \in 1..Len(status) : FinishTask(k)
    \/ PoolReturn
    \/ SaveToS3

Spec == Init /\ [][Next]_vars

\* ------------------------------------------------------------------ claims
NoDuplicates(ls) == \A i, j \in 1..Len(ls) : ls[i] = ls[j] => i = j

Emitted == {k \in 1..Len(results) : results[k] # None}

AllNull(r) ==
    /\ r.summary = None
    /\ r.sentiment_label = None
    /\ r.sentiment_score = None
    /\ r.sentiment_model = None
    /\ r.summarization_model = None

AllPopulated(r) ==
    /\ r.summary # None
    /\ r.sentiment_label # None
    /\ r.sentiment_score # None
    /\ r.sentiment_model # None
    /\ r.summarization_model # None

\* C1: every run completes, whatever fails while articles are fetched,
\* extracted, summarized and classified, and it ends with as many records as
\* article URLs were discovered.
C1_RunCompletesWithOneRecordPerUrl ==
    /\ ~(pc = "raised" /\ raised_in \in {"extract_news", "pool.map"})
    /\ pc = "done" => Len(summarized_data) = Len(fetched_links)

\* C2: a worker never lets an error out: every finished task has emitted a
\* record and pool.map has no exception to raise, whichever model call failed.
C2_WorkerNeverPropagates ==
    /\ pool_error = NULL
    /\ \A k \in 1..Len(status) : status[k] = "done" => results[k] # None

\* C3 as stated: in every emitted record summary, sentiment_label,
\* sentiment_score, sentiment_model and summarization_model are all null or
\* all populated, and source, link, article_text are those of the input item.
C3_AllNullOrAllPopulated ==
    \A k \in Emitted :
        LET r == Val(results[k])
        IN  /\ AllNull(r) \/ AllPopulated(r)
            /\ r.source = Netloc(items[k][1])
            /\ r.link = items[k][1]
            /\ r.article_text = items[k][2]

\* C3 as amended: in every emitted record summary, sentiment_label and
\* sentiment_score are all null or all populated; the two model fields are
\* null when they are null and otherwise equal the configured model names
\* (null when the run was started without them); source, link and
\* article_text are those of the input item.
C3_ResultFieldsTogether ==
    \A k \in Emitted :
        LET r == Val(results[k])
        IN  /\ \/ AllNull(r)
               \/ /\ r.summary # None
                  /\ r.sentiment_label # None
                  /\ r.sentiment_score # None
                  /\ r.sentiment_model = sentiment_model_name
                  /\ r.summarization_model = summarizer_model_name
            /\ r.source = Netloc(items[k][1])
            /\ r.link = items[k][1]
            /\ r.article_text = items[k][2]

\* C3 witness: one run emitted a degraded record and a fully populated one
C3_Witness ==
    \E j, k \in Emitted :
        /\ AllNull(Val(results[j]))
        /\ Val(results[j]).article_text # None
        /\ AllPopulated(Val(results[k]))

\* C4: the k-th output record belongs to the k-th (link, text) pair of the
\* article stream, in whatever order the workers finished: a result that has
\* arrived sits at the position of its input, and so does every record of
\* the list fetch_news_and_summarize returns.
C4_OutputInInputOrder ==
    /\ \A k \in Emitted :
           /\ Val(results[k]).link = fetched_links[k]
           /\ Val(results[k]).article_text = news_items[k]
    /\ pc \in {"save_to_s3", "done"} =>
           /\ Len(summarized_data) = Len(fetched_links)
           /\ \A k \in 1..Len(summarized_data) :
                  /\ summarized_data[k].link = fetched_links[k]
                  /\ summarized_data[k].article_text = news_items[k]

\* C4 witness: the second task's record has arrived while the first task,
\* on another link, still runs
C4_Witness ==
    /\ pc = "pool"
    /\ Len(status) >= 2
    /\ status[1] = "running"
    /\ status[2] = "done"
    /\ results[2] # None
    /\ fetched_links[1] # fetched_links[2]

\* C5: the links NewsExtractor.main returns hold every article URL at most
\* once, also when two sitemaps of robots.txt list the same URL.
C5_CrawlResultHasNoDuplicates == NoDuplicates(fetched_links)

\* C6: the list a top-level parse_sitemap call returns has no duplicates.
C6_ParsedLinksUnique == pc = "returned" => NoDuplicates(links)

\* C6 witness: article1 is listed by both nested sitemaps of the parsed one and
\* the call returned it once
C6_Witness ==
    /\ pc = "returned"
    /\ web[SitemapA] = Response(<<Loc(Nested1), Loc(Nested2)>>)
    /\ web[Nested1] = Response(<<Loc(Article1)>>)
    /\ web[Nested2] = Response(<<Loc(Article2), Loc(Article1)>>)
    /\ Len(links) = 2
    /\ Range(links) = {Article1, Article2}

\* C7: for every robots.txt body get_sitemaps returns a non-empty list.
C7_EveryBodyYieldsSitemaps ==
    (robots.kind = "response" /\ pc # "call_get_sitemaps") =>
        (pc = "returned" /\ sitemaps # <<>>)

\* C8: when robots.txt cannot be fetched get_sitemaps does not raise and
\* returns the fallback list.
C8_RobotsFailureFallsBack ==
    (robots.kind = "RequestException" /\ pc # "call_get_sitemaps") =>
        (pc = "returned" /\ sitemaps = <<FallbackSitemap>>)

\* C9: a sitemap document that cannot be fetched or whose lastmod does not
\* parse does not abort the run.
C9_SitemapFailureIsLocal ==
    ~(/\ pc = "raised"
      /\ raised_in = "parse_sitemap"
      /\ raised \in {"RequestException", "ValueError"})

\* C10: extract_news never raises, an article that cannot be retrieved is
\* appended with an absent text.
C10_ExtractNewsNeverRaises ==
    raised_in # "extract_news" /\ Len(news_items) = Len(fetched_links)

\* ---- the two matching strategies, stated on the document
\* the document parse_sitemap / a strategy was called on
CalledDoc == web[sitemaps[1]].content

LocTexts(doc) == {doc[i].text : i \in {j \in 1..Len(doc) : doc[j].tag = "loc"}}

\* calendar day of a lastmod text and of the target date, as yyyymmdd
DayOf(t) == Num(t[1]) * 10000 + Num(t[3]) * 100 + Num(t[5])
TargetDay == Num(year) * 10000 + Num(month) * 100 + Num(day)

\* the loc URLs that are the nearest loc before a lastmod on or after the
\* target date
QualifiedLocs(doc) ==
    { doc[j].text :
        <<i, j>> \in { <<i, j>> \in (1..Len(doc)) \X (1..Len(doc)) :
                        /\ doc[i].tag = "lastmod"
                        /\ DayOf(doc[i].text) >= TargetDay
                        /\ j < i
                        /\ doc[j].tag = "loc"
                        /\ \A k \in (j + 1)..(i - 1) : doc[k].tag # "loc" } }

\* u holds year, month, day with a gap of g and h characters, g and h in gaps
HoldsDate(u, gaps) ==
    \E i \in 1..Len(u), g \in gaps, h \in gaps :
        /\ i + g + h + 2 <= Len(u)
        /\ u[i] = year
        /\ g = 1 => u[i + 1] \in OneChar
        /\ u[i + g + 1] = month
        /\ h = 1 => u[i + g + 2] \in OneChar
        /\ u[i + g + h + 2] = day

\* u looks like a nested sitemap: some character followed by "xml"
LooksNested(u) == \E i \in 1..Len(u) : u[i] = ".xml" \/ (i > 1 /\ u[i] = "xml")

EndsInXml(u) == Len(u) > 0 /\ u[Len(u)] = ".xml"

\* what a document without nested references contributes, by its own strategy
LeafAdmits(doc, gaps) ==
    IF \E i \in 1..Len(doc) : doc[i].tag = "lastmod"
    THEN {u \in QualifiedLocs(doc) : HoldsDate(u, gaps)}
    ELSE {u \in LocTexts(doc) : HoldsDate(u, gaps)}

WithLastmodAdmits(doc, gaps) ==
    {u \in QualifiedLocs(doc) : ~LooksNested(u) /\ HoldsDate(u, gaps)}
    \cup UNION { LeafAdmits(web[u].content, gaps) :
                 u \in {v \in QualifiedLocs(doc) : LooksNested(v)} }

WithoutLastmodAdmits(doc, gaps) ==
    {u \in LocTexts(doc) : HoldsDate(u, gaps) /\ ~EndsInXml(u)}
    \cup UNION { LeafAdmits(web[u].content, gaps) :
                 u \in {v \in LocTexts(doc) : HoldsDate(v, gaps) /\ EndsInXml(v)} }

ExtractNewsCalled ==
    \/ Len(fetched_links') > Len(fetched_links)
    \/ raised_in' = "extract_news" /\ raised_in # "extract_news"

DelayedSinceLastFetch ==
    ExtractNewsCalled => (fetched_links = <<>> \/ slept = DELAY)

OneFetchAtATime ==
    Len(fetched_links') \in {Len(fetched_links), Len(fetched_links) + 1}

NoFetchOncePoolStarted ==
    pc \in {"pool", "save_to_s3", "done"} =>
        (~ExtractNewsCalled /\ fetched_links' = fetched_links)

\* C13: any two successive extract_news calls are separated by one sleep of
\* the fixed delay, also across sitemaps; the fetches are sequential and all
\* done before the worker pool is started.
C13_FetchesSeparatedByDelay ==
    /\ [][DelayedSinceLastFetch]_vars
    /\ [][OneFetchAtATime]_vars
    /\ [][NoFetchOncePoolStarted]_vars
    /\ [](pc = "pool" => (si > Len(sitemaps) /\ items = Zip(fetched_links, news_items)))
    /\ [](status # <<>> => pc \notin {"main", "for_sitemap", "for_link"})

\* two articles of two different sitemaps were fetched, a delay after each
C13_Witness ==
    /\ Len(sitemaps) = 2
    /\ si = 3
    /\ fetched_links = <<Article1, Article1>>
    /\ slept = DELAY

\* ---- empty-batch guard
\* the crawl found nothing: the pool returns an empty list, nothing is written
EmptyRunGoesThrough ==
    /\ (pc = "pool" /\ fetched_links = <<>>) =>
           (pc' = "save_to_s3" /\ summarized_data' = <<>> /\ raised' = NULL)
    /\ (pc = "save_to_s3" /\ summarized_data = <<>>) =>
           (pc' = "done" /\ s3' = s3 /\ raised' = NULL)

\* C14: a run that discovers zero articles gets an empty list from
\* fetch_news_and_summarize, completes without error and writes nothing; every
\* write call carries a batch of at least one record.
C14_EmptyBatchIsNotWritten ==
    /\ [][EmptyRunGoesThrough]_vars
    /\ []((pc \in {"save_to_s3", "done"} /\ fetched_links = <<>>) =>
              (summarized_data = <<>> /\ s3 = <<>>))
    /\ [](\A b \in 1..Len(s3) : Len(s3[b]) >= 1)
    /\ [](pc = "done" => (s3 = IF summarized_data = <<>> THEN <<>> ELSE <<summarized_data>>))

C14_Witness ==
    /\ pc = "done"
    /\ raised = NULL
    /\ sitemaps # <<>>
    /\ fetched_links = <<>>
    /\ summarized_data = <<>>
    /\ s3 = <<>>

\* ---- split_input_text
LinesOf(text) == SplitNewline(text)

\* C15: a text within the limit comes back as [text]; a text over the limit
\* comes back as exactly two parts, the lines before index len(lines) // 2 and
\* the lines from there on, each joined by newline, and joining the two parts
\* with a newline restores the lines of the text.
C15_SplitRestoresTheLines ==
    pc = "split_input_text" =>
        IF _count_tokens(arg_news) <= model_max_length
        THEN ret_split = <<arg_news>>
        ELSE LET lines == LinesOf(arg_news)
                 half == Len(lines) \div 2
             IN  /\ Len(ret_split) = 2
                 /\ ret_split[1] = JoinLines([i \in 1..half |-> lines[i]])
                 /\ ret_split[2] = JoinLines([i \in 1..(Len(lines) - half) |-> lines[half + i]])
                 /\ LinesOf(ret_split[1] \o <<"\n">> \o ret_split[2]) = lines

\* ---- _summarize_news
\* the chunks of the text, and the outputs of the chunks whose summarizer call
\* produced one, in chunk order
Chunks == split_input_text(arg_news)

ProducedAt == SelectSeq([i \in 1..Len(Chunks) |-> i], LAMBDA i : model_calls[i] = "ok")

Outputs == [k \in 1..Len(ProducedAt) |-> SummaryOf(Chunks[ProducedAt[k]])]

\* every summarizer call gave an output or failed inside run_model
EveryCallOutputOrNone ==
    \A i \in 1..Len(Chunks) : model_calls[i] \in {"ok", "OSError", "ValueError"}

\* C16: the summary is the outputs of the chunks that produced one, in chunk
\* order, separated by a newline; a single output is used unchanged; when no
\* chunk produced an output _summarize_news fails (ValueError) and
\* _get_summarized_item returns the default record.
C16_SummaryJoinsOutputsInOrder ==
    /\ pc = "_summarize_news" =>
           /\ EveryCallOutputOrNone
           /\ Len(Outputs) >= 1
           /\ Len(Outputs) = 1 => ret_summary = Some(Outputs[1])
           /\ Len(Outputs) = 2 =>
                  ret_summary = Some(Outputs[1] \o <<"\n">> \o Outputs[2])
    /\ (EveryCallOutputOrNone /\ Outputs = <<>>) =>
           /\ pc # "_summarize_news"
           /\ raised_in = "_summarize_news" => raised = "ValueError"
           /\ raised_in # "_get_summarized_item"
           /\ pc = "_get_summarized_item" => results = <<Some(DefaultItem(items[1]))>>

\* two chunks, both summarized, with different outputs
C16_Witness ==
    /\ pc = "_summarize_news"
    /\ Len(Outputs) = 2
    /\ Outputs[1] # Outputs[2]
    /\ ret_summary = Some(Outputs[1] \o <<"\n">> \o Outputs[2])

\* ---- the recursive expansion, stated on the graph of references
SitemapUrls == {SitemapA, Nested1, Nested2}

DocOf(u) == IF web[u].kind = "response" THEN web[u].content ELSE <<>>

\* how many references to v the strategy of the document follows
RefCount(doc, v) ==
    IF \E i \in 1..Len(doc) : doc[i].tag = "lastmod"
    THEN Cardinality({ i \in 1..Len(doc) :
             /\ doc[i].tag = "lastmod"
             /\ DayOf(doc[i].text) >= TargetDay
             /\ LooksNested(v)
             /\ \E j \in 1..(i - 1) :
                    /\ doc[j] = [tag |-> "loc", text |-> v]
                    /\ \A k \in (j + 1)..(i - 1) : doc[k].tag # "loc" })
    ELSE Cardinality({ i \in 1..Len(doc) :
             /\ doc[i] = [tag |-> "loc", text |-> v]
             /\ HoldsDate(v, {1})
             /\ EndsInXml(v) })

RECURSIVE ReachIn(_, _, _)
ReachIn(u, v, d) ==
    /\ d > 0
    /\ \E x \in SitemapUrls :
           RefCount(DocOf(u), x) > 0 /\ (x = v \/ ReachIn(x, v, d - 1))

\* no sitemap reachable from the one parse_sitemap is called on refers back
\* to itself
AcyclicFromStart ==
    \A u \in SitemapUrls :
        (u = sitemaps[1] \/ ReachIn(sitemaps[1], u, Cardinality(SitemapUrls)))
            => ~ReachIn(u, u, Cardinality(SitemapUrls))

\* number of reference paths of at most d references from u to v
RECURSIVE Paths(_, _, _)
Paths(u, v, d) ==
    (IF u = v THEN 1 ELSE 0)
    + (IF d = 0 THEN 0
       ELSE RefCount(DocOf(u), SitemapA) * Paths(SitemapA, v, d - 1)
            + RefCount(DocOf(u), Nested1) * Paths(Nested1, v, d - 1)
            + RefCount(DocOf(u), Nested2) * Paths(Nested2, v, d - 1))

FetchCount(v) == Cardinality({i \in 1..Len(fetches) : fetches[i] = v})

\* C17: the call of parse_sitemap ends; over an acyclic graph of references
\* it never runs into the recursion limit and fetches each sitemap at most,
\* and when it returns exactly, once per reference path leading to it; with
\* no visited set, it returns only over an acyclic graph.
C17_ExpansionEndsOncePerPath ==
    /\ <>(pc \in {"returned", "raised"})
    /\ [](AcyclicFromStart => raised # "RecursionError")
    /\ [](AcyclicFromStart =>
              \A v \in SitemapUrls :
                  FetchCount(v) <= Paths(sitemaps[1], v, Cardinality(SitemapUrls)))
    /\ [](pc = "returned" =>
              /\ AcyclicFromStart
              /\ \A v \in SitemapUrls :
                     FetchCount(v) = Paths(sitemaps[1], v, Cardinality(SitemapUrls)))

\* Nested2 is referred to by the top sitemap and by Nested1: fetched twice
C17_Witness ==
    /\ pc = "returned"
    /\ AcyclicFromStart
    /\ RefCount(DocOf(SitemapA), Nested2) = 1
    /\ RefCount(DocOf(Nested1), Nested2) = 1
    /\ FetchCount(Nested2) = 2
    /\ FetchCount(Nested1) = 1

====
